---- MODULE Spec2Model ----
(***************************************************************************)
(* The API server of ai-bpms-backend (cmd/server): the gin router that    *)
(* setupRoutes configures, the handlers of the instance and task routes,  *)
(* and the database rows of the process engine tables that those routes   *)
(* are about (ProcessDefinition, ProcessInstance, TaskInstance).          *)
(*                                                                         *)
(* Every handler of the server is a placeholder: it writes one JSON       *)
(* response with status 200 and returns.  None of them reads the request, *)
(* the caller's identity or the database, and none of them writes a row.  *)
(* The rows the server finds in the database when it starts are therefore *)
(* an input of the model (Init draws them from a bounded set).            *)
(*                                                                         *)
(* The migration tool (cmd/migrate) is a separate process on the same     *)
(* database: Migrator.Run applies the declared migrations that have no    *)
(* MigrationRecord, Migrator.Rollback undoes the one applied last.  Each  *)
(* database statement of Run and Rollback is one step, and each may fail. *)
(***************************************************************************)
EXTENDS Integers, Sequences, FiniteSets, TLC

VARIABLES
    requests,             \* the requests received so far, in arrival order
    responses,            \* request index -> the response written for it
    process_definitions,  \* table process_definitions: Key -> row
    process_instances,    \* table process_instances: id -> row
    task_instances,       \* table task_instances: id -> row
    migration_records,    \* table migration_records: Version -> AppliedAt
    schema,               \* the versions whose schema change is in effect
    now,                  \* the database clock, in seconds
    calls,                \* how many times cmd/migrate has been started
    migrators,            \* cmd/migrate process -> its position and locals
    contexts,             \* request index -> its gin.Context when the chain ended
    logs,                 \* the entries RequestLogger has written, in order
    limiter,              \* the tokens the rate limiter holds
    uuids,                \* how many ids uuid.New() has generated
    main                  \* where main of cmd/server is

vars == <<requests, responses, process_definitions, process_instances, task_instances,
          migration_records, schema, now, calls, migrators,
          contexts, logs, limiter, uuids, main>>
db == <<process_definitions, process_instances, task_instances>>
migration == <<migration_records, schema, now, calls, migrators>>
http == <<contexts, logs, limiter, uuids, main>>
server == <<requests, responses, db, http>>

----------------------------------------------------------------------------
(* Bounds of the model *)

\* the number of requests the server receives in one run
MaxRequests == 2

\* the number of times cmd/migrate is started in one run
MaxCalls == 2

\* the last second of the database clock
MaxTime == 1

\* the tokens of the rate limiter when it is full (security.rate_limit.burst,
\* 200 by default, scaled down)
Burst == 1

NULL == "null"
Users == {"u1", "u2"}

\* getMigrations: the versions of the declared migrations, in declaration order
Migrations ==
    << "001_initial_schema", "002_rbac_system", "003_process_engine",
       "004_audit_system", "005_indexes_optimization" >>

Versions == {Migrations[k] : k \in DOMAIN Migrations}

\* a cmd/migrate process that has not been started
Idle ==
    [pc |-> "idle", op |-> NULL, started |-> {}, applied |-> {}, idx |-> 0,
     executed |-> << >>, lastRecord |-> NULL, ret |-> NULL]

\* The database the server runs on has been migrated: every declared
\* migration is applied and recorded, and no cmd/migrate process runs.
Migrated ==
    /\ migration_records = [v \in Versions |-> 0]
    /\ schema = Versions
    /\ now = 0
    /\ calls = 0
    /\ migrators = [m \in {"m1"} |-> Idle]

----------------------------------------------------------------------------
(* The rows: models.ProcessDefinition, models.ProcessInstance, models.TaskInstance *)

\* ProcessInstance.Status, a varchar(50) documented as one of these four
InstanceStatus == {"active", "completed", "suspended", "terminated"}

\* TaskInstance.Status, a varchar(50) documented as one of these four
TaskStatus == {"created", "assigned", "completed", "cancelled"}

\* ProcessDefinition rows the database holds.  BPMN is the document of the
\* definition, kept here as its start step, the steps' types and the start
\* step's outgoing transitions in declaration order.
ProcessDefinition ==
    [ k \in {"leave-approval", "linear", "route"} |->
        IF k = "leave-approval"
        THEN [Key |-> k, Version |-> 1,
              BPMN |-> [start |-> "manager-review",
                        tasks |-> {"manager-review"},
                        transitions |-> << >>]]
        ELSE IF k = "linear"
        THEN [Key |-> k, Version |-> 1,
              BPMN |-> [start |-> "first",
                        tasks |-> {"first", "second"},
                        transitions |-> << [rule |-> "true", target |-> "second"] >>]]
        ELSE [Key |-> k, Version |-> 1,
              BPMN |-> [start |-> "gw",
                        tasks |-> {"task_a", "task_b", "task_c"},
                        transitions |-> << [rule |-> "false", target |-> "task_a"],
                                           [rule |-> "true", target |-> "task_b"],
                                           [rule |-> "true", target |-> "task_c"] >>]] ]

DefKeys == DOMAIN ProcessDefinition

\* A stored definition with a parallel section: the start step forks into
\* the task steps branch_a and branch_b, whose outgoing transitions both
\* lead to the task step review, the AND-join of the two branches.
ParallelDefinition ==
    [ k \in {"parallel"} |->
        [Key |-> k, Version |-> 1,
         BPMN |-> [start |-> "fork",
                   tasks |-> {"branch_a", "branch_b", "review"},
                   transitions |-> << [rule |-> "true", target |-> "branch_a"],
                                      [rule |-> "true", target |-> "branch_b"] >>,
                   branches |-> {"branch_a", "branch_b"},
                   join |-> "review"]] ]

\* ProcessInstance rows as an engine leaves them: Status is NOT NULL;
\* Variables is the jsonb document of the variable context, kept as a set of
\* <<key, value>> pairs; Context is the jsonb document that holds the
\* instance's current steps, none once the instance has ended.  The rows of
\* definition "linear" are an instance at its first task and one at its
\* second task; the row of definition "parallel" is an instance in both
\* branches.
ProcessInstance ==
    { [ProcessDefinitionID |-> "leave-approval", Status |-> st, Variables |-> {},
       Context |-> IF st \in {"active", "suspended"} THEN {"manager-review"} ELSE {}] :
         st \in InstanceStatus }
    \cup { [ProcessDefinitionID |-> "linear", Status |-> "active", Variables |-> {},
            Context |-> {"first"}],
           [ProcessDefinitionID |-> "linear", Status |-> "active",
            Variables |-> {<<"approved", "no">>, <<"days", "3">>},
            Context |-> {"second"}],
           [ProcessDefinitionID |-> "parallel", Status |-> "active", Variables |-> {},
            Context |-> {"branch_a", "branch_b"}] }

\* TaskInstance rows as an engine leaves them: Status is NOT NULL; AssigneeID
\* is null until the task is assigned, and a task may be cancelled before or
\* after it is assigned.
TaskInstance ==
    { row \in [ProcessInstanceID : {"i1"},
               TaskDefinitionKey : {"manager-review", "first", "second",
                                    "branch_a", "branch_b"},
               Status : TaskStatus, AssigneeID : {NULL, "u1"}] :
        /\ row.Status = "created" => row.AssigneeID = NULL
        /\ row.Status \in {"assigned", "completed"} => row.AssigneeID # NULL }

\* The rows of instance i1 and of its tasks that the database holds when
\* the server starts.  A task is of a step of the instance's definition;
\* for the instances of "linear" it is the assigned task of the current
\* step; the instance of "parallel" has an open task in each branch.
Fixtures ==
    { [process_instances |-> [i \in {"i1"} |-> pair[1]],
       task_instances |-> [t \in {"t1"} |-> pair[2]]] :
        pair \in { q \in ProcessInstance \X TaskInstance :
                     /\ q[1].ProcessDefinitionID \in DefKeys
                     /\ q[2].TaskDefinitionKey
                           \in ProcessDefinition[q[1].ProcessDefinitionID].BPMN.tasks
                     /\ q[1].ProcessDefinitionID = "linear"
                           => /\ q[2].TaskDefinitionKey \in q[1].Context
                              /\ q[2].Status = "assigned" } }
    \cup
    { [process_instances |-> [i \in {"i1"} |-> p],
       task_instances |-> [t \in {"t1", "t2"} |-> IF t = "t1" THEN a ELSE b]] :
        p \in {q \in ProcessInstance : q.ProcessDefinitionID = "parallel"},
        a \in {q \in TaskInstance : /\ q.TaskDefinitionKey = "branch_a"
                                    /\ q.Status \in {"created", "assigned"}},
        b \in {q \in TaskInstance : /\ q.TaskDefinitionKey = "branch_b"
                                    /\ q.Status \in {"created", "assigned"}} }

\* The server listens and has served nothing: no request has passed the
\* middleware chain, the limiter is full, main waits for a signal.
Listening ==
    /\ contexts = << >>
    /\ logs = << >>
    /\ limiter = Burst
    /\ uuids = 0
    /\ main = "serving"

----------------------------------------------------------------------------
(* The router: setupRoutes *)

\* The instance and task routes that take a request body or change a
\* resource, as setupRoutes registers them under /api/v1.
RouteTable ==
    { [method |-> "POST",   pattern |-> <<"instances">>,               handler |-> "startInstance"],
      [method |-> "PUT",    pattern |-> <<"instances", ":id">>,        handler |-> "updateInstance"],
      [method |-> "DELETE", pattern |-> <<"instances", ":id">>,        handler |-> "cancelInstance"],
      [method |-> "POST",   pattern |-> <<"tasks", ":id", "complete">>, handler |-> "completeTask"],
      [method |-> "POST",   pattern |-> <<"tasks", ":id", "assign">>,   handler |-> "assignTask"] }

\* gin's match of a path against a route pattern: equal length, and each
\* segment equal unless the pattern's segment is a parameter.
Match(pattern, path) ==
    /\ Len(pattern) = Len(path)
    /\ \A k \in 1..Len(pattern) : pattern[k] = ":id" \/ pattern[k] = path[k]

\* The handler the router dispatches a request to; NoRoute when no
\* registered route matches its method and path.
Route(req) ==
    LET hits == {rt \in RouteTable : rt.method = req.method /\ Match(rt.pattern, req.path)}
    IN  IF hits = {} THEN "NoRoute" ELSE (CHOOSE rt \in hits : TRUE).handler

\* The requests clients send: start, update, cancel, complete, assign, and
\* claim (POST /tasks/:id/claim, a path setupRoutes registers no route for).
\* body is the definition key of a start; variables are the variables a
\* start or a complete carries, as a set of <<key, value>> pairs.
Requests ==
    {[method |-> "POST", path |-> <<"instances">>, user |-> u, body |-> k,
      variables |-> {}] :
        u \in Users, k \in DefKeys}
    \cup {[method |-> m, path |-> <<"instances", "i1">>, user |-> u, body |-> NULL,
           variables |-> {}] :
        m \in {"PUT", "DELETE"}, u \in Users}
    \cup {[method |-> "POST", path |-> <<"tasks", "t1", "complete">>, user |-> u,
           body |-> NULL, variables |-> v] :
        u \in Users, v \in {{}, {<<"approved", "yes">>}}}
    \cup {[method |-> "POST", path |-> <<"tasks", "t1", op>>, user |-> u, body |-> NULL,
           variables |-> {}] :
        op \in {"assign", "claim"}, u \in Users}

\* requests received and not yet answered
Pending == (1..Len(requests)) \ DOMAIN responses

\* the :id parameter of a request's path
Param(req) == req.path[2]

----------------------------------------------------------------------------
(* Init: the server has started and no request has arrived *)

Init ==
    /\ requests = << >>
    /\ responses = << >>
    /\ process_definitions = ProcessDefinition @@ ParallelDefinition
    /\ Migrated
    /\ Listening
    /\ \E rows \in Fixtures :
          /\ process_instances = rows.process_instances
          /\ task_instances = rows.task_instances

----------------------------------------------------------------------------
(* Actions *)

\* c.JSON(status, gin.H{"message": message}): the response of request r
JSON(r, status, message) ==
    responses' = responses @@ (r :> [status |-> status, message |-> message])

\* The server accepts a request; from here on it is in flight, concurrently
\* with every other request not yet answered.
Receive(req) ==
    /\ Len(requests) < MaxRequests
    /\ requests' = Append(requests, req)
    /\ UNCHANGED <<migration, http, responses, db>>

startInstance(r) ==
    /\ r \in Pending
    /\ Route(requests[r]) = "startInstance"
    /\ JSON(r, 200, "Start instance - TODO: Implement")
    /\ UNCHANGED <<migration, http, requests, db>>

updateInstance(r) ==
    /\ r \in Pending
    /\ Route(requests[r]) = "updateInstance"
    /\ JSON(r, 200, "Update instance - TODO: Implement")
    /\ UNCHANGED <<migration, http, requests, db>>

\* A faulty variant of cancelInstance: it cancels whatever the instance's status is.
cancelInstance_Force(r) ==
    /\ r \in Pending
    /\ Route(requests[r]) = "cancelInstance"
    /\ JSON(r, 200, "Cancel instance - TODO: Implement")
    /\ process_instances' =
          [i \in DOMAIN process_instances |->
              IF i = Param(requests[r])
              THEN [process_instances[i] EXCEPT !.Status = "terminated", !.Context = {}]
              ELSE process_instances[i]]
    /\ UNCHANGED <<migration, http, requests, process_definitions, task_instances>>

\* A faulty variant of cancelInstance: it rejects an instance that is not active.
cancelInstance_RejectTerminal(r) ==
    /\ r \in Pending
    /\ Route(requests[r]) = "cancelInstance"
    /\ IF /\ Param(requests[r]) \in DOMAIN process_instances
          /\ process_instances[Param(requests[r])].Status # "active"
       THEN JSON(r, 409, "instance is not active")
       ELSE JSON(r, 200, "Cancel instance - TODO: Implement")
    /\ UNCHANGED <<migration, http, requests, db>>

cancelInstance(r) ==
    /\ r \in Pending
    /\ Route(requests[r]) = "cancelInstance"
    /\ JSON(r, 200, "Cancel instance - TODO: Implement")
    /\ UNCHANGED <<migration, http, requests, db>>

\* A faulty variant of completeTask: it completes the task whatever its status is.
completeTask_AnyState(r) ==
    /\ r \in Pending
    /\ Route(requests[r]) = "completeTask"
    /\ JSON(r, 200, "Complete task - TODO: Implement")
    /\ task_instances' =
          [t \in DOMAIN task_instances |->
              IF t = Param(requests[r])
              THEN [task_instances[t] EXCEPT !.Status = "completed"]
              ELSE task_instances[t]]
    /\ UNCHANGED <<migration, http, requests, process_definitions, process_instances>>

\* A faulty variant of completeTask: it writes the completion first and
\* checks the caller afterwards, so a caller who is not the assignee is
\* answered 403 on a task it has completed.
completeTask_CheckAfterWrite(r) ==
    /\ r \in Pending
    /\ Route(requests[r]) = "completeTask"
    /\ task_instances' =
          [t \in DOMAIN task_instances |->
              IF t = Param(requests[r]) /\ task_instances[t].Status = "assigned"
              THEN [task_instances[t] EXCEPT !.Status = "completed"]
              ELSE task_instances[t]]
    /\ IF /\ Param(requests[r]) \in DOMAIN task_instances
          /\ task_instances[Param(requests[r])].AssigneeID # requests[r].user
       THEN JSON(r, 403, "Forbidden")
       ELSE JSON(r, 200, "Complete task - TODO: Implement")
    /\ UNCHANGED <<migration, http, requests, process_definitions, process_instances>>

\* A faulty variant of completeTask: in a parallel section it moves the
\* instance from the branch of the task to the join at once.
completeTask_EagerJoin(r) ==
    /\ r \in Pending
    /\ Route(requests[r]) = "completeTask"
    /\ JSON(r, 200, "Complete task - TODO: Implement")
    /\ process_instances' =
          [i \in DOMAIN process_instances |->
              IF /\ Param(requests[r]) \in DOMAIN task_instances
                 /\ task_instances[Param(requests[r])].ProcessInstanceID = i
                 /\ process_instances[i].ProcessDefinitionID = "parallel"
              THEN [process_instances[i] EXCEPT !.Context =
                       (@ \ {task_instances[Param(requests[r])].TaskDefinitionKey})
                          \cup {process_definitions["parallel"].BPMN.join}]
              ELSE process_instances[i]]
    /\ UNCHANGED <<migration, http, requests, process_definitions, task_instances>>

completeTask(r) ==
    /\ r \in Pending
    /\ Route(requests[r]) = "completeTask"
    /\ JSON(r, 200, "Complete task - TODO: Implement")
    /\ UNCHANGED <<migration, http, requests, db>>

assignTask(r) ==
    /\ r \in Pending
    /\ Route(requests[r]) = "assignTask"
    /\ JSON(r, 200, "Assign task - TODO: Implement")
    /\ UNCHANGED <<migration, http, requests, db>>

\* No registered route matches: the router answers 404 itself.
NoRoute(r) ==
    /\ r \in Pending
    /\ Route(requests[r]) = "NoRoute"
    /\ JSON(r, 404, "404 page not found")
    /\ UNCHANGED <<migration, http, requests, db>>

Next ==
    \/ \E req \in Requests : Receive(req)
    \/ \E r \in 1..MaxRequests : startInstance(r)
    \/ \E r \in 1..MaxRequests : updateInstance(r)
    \/ \E r \in 1..MaxRequests : cancelInstance(r)
    \/ \E r \in 1..MaxRequests : completeTask(r)
    \/ \E r \in 1..MaxRequests : assignTask(r)
    \/ \E r \in 1..MaxRequests : NoRoute(r)

Spec == Init /\ [][Next]_vars

----------------------------------------------------------------------------
(* The whole router: every route of setupRoutes, by full path *)

\* The other routes setupRoutes registers in the groups of /api/v1, by
\* their path within /api/v1.
V1Routes ==
    { [method |-> "POST",   pattern |-> <<"auth", "login">>, handler |-> "loginHandler"],
      [method |-> "POST",   pattern |-> <<"auth", "logout">>, handler |-> "logoutHandler"],
      [method |-> "POST",   pattern |-> <<"auth", "refresh">>, handler |-> "refreshHandler"],
      [method |-> "GET",    pattern |-> <<"auth", "profile">>, handler |-> "profileHandler"],
      [method |-> "GET",    pattern |-> <<"processes">>, handler |-> "listProcesses"],
      [method |-> "POST",   pattern |-> <<"processes">>, handler |-> "createProcess"],
      [method |-> "GET",    pattern |-> <<"processes", ":id">>, handler |-> "getProcess"],
      [method |-> "PUT",    pattern |-> <<"processes", ":id">>, handler |-> "updateProcess"],
      [method |-> "DELETE", pattern |-> <<"processes", ":id">>, handler |-> "deleteProcess"],
      [method |-> "GET",    pattern |-> <<"instances">>, handler |-> "listInstances"],
      [method |-> "GET",    pattern |-> <<"instances", ":id">>, handler |-> "getInstance"],
      [method |-> "GET",    pattern |-> <<"tasks">>, handler |-> "listTasks"],
      [method |-> "GET",    pattern |-> <<"tasks", ":id">>, handler |-> "getTask"],
      [method |-> "GET",    pattern |-> <<"forms", "schema", ":id">>, handler |-> "getFormSchema"],
      [method |-> "POST",   pattern |-> <<"forms", "validate">>, handler |-> "validateForm"],
      [method |-> "GET",    pattern |-> <<"rules">>, handler |-> "listRules"],
      [method |-> "POST",   pattern |-> <<"rules">>, handler |-> "createRule"],
      [method |-> "PUT",    pattern |-> <<"rules", ":id">>, handler |-> "updateRule"],
      [method |-> "POST",   pattern |-> <<"rules", "evaluate">>, handler |-> "evaluateRule"],
      [method |-> "POST",   pattern |-> <<"ai", "process">>, handler |-> "aiGenerateProcess"],
      [method |-> "POST",   pattern |-> <<"ai", "rules">>, handler |-> "aiGenerateRules"],
      [method |-> "POST",   pattern |-> <<"ai", "optimize">>, handler |-> "aiOptimizeProcess"],
      [method |-> "GET",    pattern |-> <<"analytics", "dashboard">>, handler |-> "getDashboard"],
      [method |-> "GET",    pattern |-> <<"analytics", "processes">>, handler |-> "getProcessAnalytics"],
      [method |-> "GET",    pattern |-> <<"analytics", "instances">>, handler |-> "getInstanceAnalytics"],
      [method |-> "GET",    pattern |-> <<"admin", "users">>, handler |-> "listUsers"],
      [method |-> "POST",   pattern |-> <<"admin", "users">>, handler |-> "createUser"],
      [method |-> "PUT",    pattern |-> <<"admin", "users", ":id">>, handler |-> "updateUser"],
      [method |-> "DELETE", pattern |-> <<"admin", "users", ":id">>, handler |-> "deleteUser"],
      [method |-> "PUT",    pattern |-> <<"admin", "users", ":id", "roles">>, handler |-> "updateUserRoles"] }

\* Every route of the router by the path from its root: the routes of the
\* group /api/v1, the two WebSocket routes, the health check and the
\* metrics endpoint (metrics.enabled is true by default).
Routes ==
    { [method |-> rt.method, pattern |-> <<"api", "v1">> \o rt.pattern,
       handler |-> rt.handler] : rt \in RouteTable \cup V1Routes }
    \cup { [method |-> "GET", pattern |-> <<"ws", "notifications">>, handler |-> "wsNotifications"],
           [method |-> "GET", pattern |-> <<"ws", "tasks">>,         handler |-> "wsTasks"],
           [method |-> "GET", pattern |-> <<"health">>,              handler |-> "healthCheck"],
           [method |-> "GET", pattern |-> <<"metrics">>,             handler |-> "metricsHandler"] }

\* The message of each placeholder handler, as the handler writes it.
Placeholders ==
    ("loginHandler" :> "Login endpoint - TODO: Implement")
    @@ ("logoutHandler" :> "Logout endpoint - TODO: Implement")
    @@ ("refreshHandler" :> "Refresh endpoint - TODO: Implement")
    @@ ("profileHandler" :> "Profile endpoint - TODO: Implement")
    @@ ("listProcesses" :> "List processes - TODO: Implement")
    @@ ("createProcess" :> "Create process - TODO: Implement")
    @@ ("getProcess" :> "Get process - TODO: Implement")
    @@ ("updateProcess" :> "Update process - TODO: Implement")
    @@ ("deleteProcess" :> "Delete process - TODO: Implement")
    @@ ("listInstances" :> "List instances - TODO: Implement")
    @@ ("startInstance" :> "Start instance - TODO: Implement")
    @@ ("getInstance" :> "Get instance - TODO: Implement")
    @@ ("updateInstance" :> "Update instance - TODO: Implement")
    @@ ("cancelInstance" :> "Cancel instance - TODO: Implement")
    @@ ("listTasks" :> "List tasks - TODO: Implement")
    @@ ("getTask" :> "Get task - TODO: Implement")
    @@ ("completeTask" :> "Complete task - TODO: Implement")
    @@ ("assignTask" :> "Assign task - TODO: Implement")
    @@ ("getFormSchema" :> "Get form schema - TODO: Implement")
    @@ ("validateForm" :> "Validate form - TODO: Implement")
    @@ ("listRules" :> "List rules - TODO: Implement")
    @@ ("createRule" :> "Create rule - TODO: Implement")
    @@ ("updateRule" :> "Update rule - TODO: Implement")
    @@ ("evaluateRule" :> "Evaluate rule - TODO: Implement")
    @@ ("aiGenerateProcess" :> "AI generate process - TODO: Implement")
    @@ ("aiGenerateRules" :> "AI generate rules - TODO: Implement")
    @@ ("aiOptimizeProcess" :> "AI optimize process - TODO: Implement")
    @@ ("getDashboard" :> "Get dashboard - TODO: Implement")
    @@ ("getProcessAnalytics" :> "Get process analytics - TODO: Implement")
    @@ ("getInstanceAnalytics" :> "Get instance analytics - TODO: Implement")
    @@ ("listUsers" :> "List users - TODO: Implement")
    @@ ("createUser" :> "Create user - TODO: Implement")
    @@ ("updateUser" :> "Update user - TODO: Implement")
    @@ ("deleteUser" :> "Delete user - TODO: Implement")
    @@ ("updateUserRoles" :> "Update user roles - TODO: Implement")
    @@ ("wsNotifications" :> "WebSocket notifications - TODO: Implement")
    @@ ("wsTasks" :> "WebSocket tasks - TODO: Implement")

\* The handler the router dispatches a request with a full path to.
Router(req) ==
    LET hits == {rt \in Routes : rt.method = req.method /\ Match(rt.pattern, req.path)}
    IN  IF hits = {} THEN "NoRoute" ELSE (CHOOSE rt \in hits : TRUE).handler

\* Definitions a client submits to POST /api/v1/processes, by the name the
\* request body has here: a new version of a stored key, and graphs with no
\* start step, with a step no path from the start reaches, and with a
\* transition to a step that does not exist.
Submitted ==
    ("leave-approval-v2" :>
        [Key |-> "leave-approval",
         BPMN |-> [steps |-> {"manager-review", "hr-review", "end"},
                   start |-> {"manager-review"},
                   edges |-> {<<"manager-review", "hr-review">>, <<"hr-review", "end">>}]])
    @@ ("no-start" :>
        [Key |-> "broken",
         BPMN |-> [steps |-> {"a", "end"}, start |-> {},
                   edges |-> {<<"a", "end">>}]])
    @@ ("unreachable" :>
        [Key |-> "broken",
         BPMN |-> [steps |-> {"a", "b", "end"}, start |-> {"a"},
                   edges |-> {<<"a", "end">>, <<"b", "end">>}]])
    @@ ("dangling" :>
        [Key |-> "broken",
         BPMN |-> [steps |-> {"a", "end"}, start |-> {"a"},
                   edges |-> {<<"a", "end">>, <<"a", "ghost">>}]])

\* The path of a request to a route: the parameter of a process route names
\* a stored definition, of an instance route instance i1, of a task route
\* task t1.
PathOf(pattern) ==
    [k \in DOMAIN pattern |->
        IF pattern[k] # ":id" THEN pattern[k]
        ELSE IF pattern[3] = "processes" THEN "leave-approval"
        ELSE IF pattern[3] = "instances" THEN "i1"
        ELSE IF pattern[3] = "tasks" THEN "t1"
        ELSE "1"]

\* The requests clients send to the router: one to every route, without
\* credentials; the submissions of definitions by u1; and two requests no
\* route is registered for.
ApiRequests ==
    {[method |-> rt.method, path |-> PathOf(rt.pattern), user |-> NULL, body |-> NULL,
      variables |-> {}] : rt \in Routes}
    \cup {[method |-> "POST", path |-> <<"api", "v1", "processes">>, user |-> "u1",
           body |-> d, variables |-> {}] : d \in DOMAIN Submitted}
    \cup {[method |-> "POST", path |-> <<"api", "v1", "tasks", "t1", "claim">>,
           user |-> "u1", body |-> NULL, variables |-> {}],
          [method |-> "GET", path |-> <<"api", "v1", "health">>,
           user |-> NULL, body |-> NULL, variables |-> {}]}

\* The router's dispatch of the requests clients send.  gin builds its
\* route trees once, when setupRoutes registers the routes.
Dispatch == [req \in ApiRequests |-> Router(req)]

\* The server has started on a database that holds an instance of "linear".
InitRoutes ==
    /\ requests = << >>
    /\ responses = << >>
    /\ process_definitions = ProcessDefinition @@ ParallelDefinition
    /\ Migrated
    /\ Listening
    /\ \E rows \in {f \in Fixtures :
                      f.process_instances["i1"].ProcessDefinitionID = "linear"} :
          /\ process_instances = rows.process_instances
          /\ task_instances = rows.task_instances

\* A faulty variant of the placeholder handlers: createProcess stores the
\* submitted definition under its key, as the next version, in place of the
\* stored one.
Placeholder_Upsert(r) ==
    /\ r \in Pending
    /\ Dispatch[requests[r]] \in DOMAIN Placeholders
    /\ JSON(r, 200, Placeholders[Dispatch[requests[r]]])
    /\ process_definitions' =
          IF /\ Dispatch[requests[r]] = "createProcess"
             /\ requests[r].body \in DOMAIN Submitted
             /\ Submitted[requests[r].body].Key \in DOMAIN process_definitions
          THEN [process_definitions EXCEPT ![Submitted[requests[r].body].Key] =
                   [Key |-> @.Key, Version |-> @.Version + 1,
                    BPMN |-> Submitted[requests[r].body].BPMN]]
          ELSE process_definitions
    /\ UNCHANGED <<migration, http, requests, process_instances, task_instances>>

\* A faulty variant of the placeholder handlers: a request without
\* credentials is answered 401.
Placeholder_Authenticated(r) ==
    /\ r \in Pending
    /\ Dispatch[requests[r]] \in DOMAIN Placeholders
    /\ IF requests[r].user = NULL
       THEN JSON(r, 401, "Unauthorized")
       ELSE JSON(r, 200, Placeholders[Dispatch[requests[r]]])
    /\ UNCHANGED <<migration, http, requests, db>>

\* Any of the placeholder handlers: c.JSON(http.StatusOK, gin.H{"message":
\* "... - TODO: Implement"}) and nothing else.
Placeholder(r) ==
    /\ r \in Pending
    /\ Dispatch[requests[r]] \in DOMAIN Placeholders
    /\ JSON(r, 200, Placeholders[Dispatch[requests[r]]])
    /\ UNCHANGED <<migration, http, requests, db>>

\* healthCheck answers 200 with the status "healthy", recorded here as the
\* response's message.
healthCheck(r) ==
    /\ r \in Pending
    /\ Dispatch[requests[r]] = "healthCheck"
    /\ JSON(r, 200, "healthy")
    /\ UNCHANGED <<migration, http, requests, db>>

metricsHandler(r) ==
    /\ r \in Pending
    /\ Dispatch[requests[r]] = "metricsHandler"
    /\ JSON(r, 200, "Metrics endpoint - TODO: Implement Prometheus metrics")
    /\ UNCHANGED <<migration, http, requests, db>>

\* No route of the router matches: the router answers 404 itself.
NotFound(r) ==
    /\ r \in Pending
    /\ Dispatch[requests[r]] = "NoRoute"
    /\ JSON(r, 404, "404 page not found")
    /\ UNCHANGED <<migration, http, requests, db>>

NextRoutes ==
    \/ \E req \in ApiRequests : Receive(req)
    \/ \E r \in 1..MaxRequests : Placeholder(r)
    \/ \E r \in 1..MaxRequests : healthCheck(r)
    \/ \E r \in 1..MaxRequests : metricsHandler(r)
    \/ \E r \in 1..MaxRequests : NotFound(r)

SpecRoutes == InitRoutes /\ [][NextRoutes]_vars

----------------------------------------------------------------------------
(* The migration tool: cmd/migrate, Migrator.Run and Migrator.Rollback *)

\* The database cmd/migrate connects to: any set of the declared versions
\* is recorded, each with its schema change in effect; the engine tables
\* hold no rows and no server runs.
InitMigrate ==
    /\ requests = << >>
    /\ responses = << >>
    /\ process_definitions = [k \in {} |-> k]
    /\ process_instances = [i \in {} |-> i]
    /\ task_instances = [t \in {} |-> t]
    /\ Listening
    /\ \E recorded \in SUBSET Versions :
          /\ migration_records = [v \in recorded |-> 0]
          /\ schema = recorded
    /\ now = 0
    /\ calls = 0
    /\ migrators = [m \in {"m1"} |-> Idle]

\* the migration a Run is at
Current(m) == Migrations[migrators[m].idx]

\* Run or Rollback of process m returns
Return(m, result) ==
    migrators' = [migrators EXCEPT ![m].pc = "returned", ![m].ret = result]

\* a second of the database clock passes
Tick ==
    /\ now < MaxTime
    /\ now' = now + 1
    /\ UNCHANGED <<server, migration_records, schema, calls, migrators>>

\* cmd/migrate is started without -rollback: main calls migrator.Run()
Run(m) ==
    /\ migrators[m].pc \in {"idle", "returned"}
    /\ calls < MaxCalls
    /\ calls' = calls + 1
    /\ migrators' = [migrators EXCEPT ![m] =
          [Idle EXCEPT !.pc = "AutoMigrate", !.op = "Run",
                       !.started = DOMAIN migration_records]]
    /\ UNCHANGED <<server, migration_records, schema, now>>

\* m.db.AutoMigrate(&MigrationRecord{}): the tracking table exists afterwards
AutoMigrate(m) ==
    /\ migrators[m].pc = "AutoMigrate"
    /\ \/ migrators' = [migrators EXCEPT ![m].pc = "getAppliedMigrations"]
       \/ Return(m, "error")
    /\ UNCHANGED <<server, migration_records, schema, now, calls>>

\* A faulty variant of getAppliedMigrations: the map it returns is empty.
getAppliedMigrations_Empty(m) ==
    /\ migrators[m].pc = "getAppliedMigrations"
    /\ \/ migrators' = [migrators EXCEPT ![m].pc = "loop", ![m].idx = 1,
                                         ![m].applied = {}]
       \/ Return(m, "error")
    /\ UNCHANGED <<server, migration_records, schema, now, calls>>

\* applied, err := m.getAppliedMigrations(): the versions recorded now
getAppliedMigrations(m) ==
    /\ migrators[m].pc = "getAppliedMigrations"
    /\ \/ migrators' = [migrators EXCEPT ![m].pc = "loop", ![m].idx = 1,
                                         ![m].applied = DOMAIN migration_records]
       \/ Return(m, "error")
    /\ UNCHANGED <<server, migration_records, schema, now, calls>>

\* the loop passes over a migration that applied holds
Skip(m) ==
    /\ migrators[m].pc = "loop"
    /\ migrators[m].idx <= Len(Migrations)
    /\ Current(m) \in migrators[m].applied
    /\ migrators' = [migrators EXCEPT ![m].idx = @ + 1]
    /\ UNCHANGED <<server, migration_records, schema, now, calls>>

\* A faulty variant of Up: the record of the migration is written before the
\* error of Up is looked at.
Up_RecordFirst(m) ==
    /\ migrators[m].pc = "loop"
    /\ migrators[m].idx <= Len(Migrations)
    /\ Current(m) \notin migrators[m].applied
    /\ \/ /\ schema' = schema \cup {Current(m)}
          /\ migration_records' = migration_records
          /\ migrators' = [migrators EXCEPT ![m].pc = "Create",
                                            ![m].executed = Append(@, Current(m))]
       \/ /\ schema' = schema
          /\ migration_records' =
                IF Current(m) \in DOMAIN migration_records THEN migration_records
                ELSE migration_records @@ (Current(m) :> now)
          /\ migrators' = [migrators EXCEPT ![m].pc = "returned", ![m].ret = "error",
                                            ![m].executed = Append(@, Current(m))]
    /\ UNCHANGED <<server, now, calls>>

\* migration.Up(m.db) of a migration that applied does not hold: on success
\* its schema change is in effect, on error Run returns (the statements a
\* failed Up has already executed are not counted as the change in effect)
Up(m) ==
    /\ migrators[m].pc = "loop"
    /\ migrators[m].idx <= Len(Migrations)
    /\ Current(m) \notin migrators[m].applied
    /\ \/ /\ schema' = schema \cup {Current(m)}
          /\ migrators' = [migrators EXCEPT ![m].pc = "Create",
                                            ![m].executed = Append(@, Current(m))]
       \/ /\ schema' = schema
          /\ migrators' = [migrators EXCEPT ![m].pc = "returned", ![m].ret = "error",
                                            ![m].executed = Append(@, Current(m))]
    /\ UNCHANGED <<server, migration_records, now, calls>>

\* m.db.Create(&record): Version is the primary key, AppliedAt the second of
\* the insert; on error Run returns
Create(m) ==
    /\ migrators[m].pc = "Create"
    /\ \/ /\ Current(m) \notin DOMAIN migration_records
          /\ migration_records' = migration_records @@ (Current(m) :> now)
          /\ migrators' = [migrators EXCEPT ![m].pc = "loop", ![m].idx = @ + 1]
       \/ /\ migration_records' = migration_records
          /\ Return(m, "error")
    /\ UNCHANGED <<server, schema, now, calls>>

\* A faulty variant of RunReturn: the loop ends one migration early.
RunReturn_OffByOne(m) ==
    /\ migrators[m].pc = "loop"
    /\ migrators[m].idx > Len(Migrations) - 1
    /\ Return(m, "ok")
    /\ UNCHANGED <<server, migration_records, schema, now, calls>>

\* the loop has passed every migration: Run returns nil
RunReturn(m) ==
    /\ migrators[m].pc = "loop"
    /\ migrators[m].idx > Len(Migrations)
    /\ Return(m, "ok")
    /\ UNCHANGED <<server, migration_records, schema, now, calls>>

\* cmd/migrate is started with -rollback: main calls migrator.Rollback()
Rollback(m) ==
    /\ migrators[m].pc \in {"idle", "returned"}
    /\ calls < MaxCalls
    /\ calls' = calls + 1
    /\ migrators' = [migrators EXCEPT ![m] =
          [Idle EXCEPT !.pc = "First", !.op = "Rollback",
                       !.started = DOMAIN migration_records]]
    /\ UNCHANGED <<server, migration_records, schema, now>>

\* m.db.Order("applied_at DESC").First(&lastRecord): a record with the
\* latest AppliedAt, any of them when several share it; an error when the
\* table holds none
First(m) ==
    /\ migrators[m].pc = "First"
    /\ \/ \E v \in DOMAIN migration_records :
             /\ \A w \in DOMAIN migration_records :
                    migration_records[w] <= migration_records[v]
             /\ migrators' = [migrators EXCEPT ![m].pc = "Down", ![m].lastRecord = v]
       \/ Return(m, "error")
    /\ UNCHANGED <<server, migration_records, schema, now, calls>>

\* targetMigration.Down(m.db): on success the schema change is undone, on
\* error Rollback returns
Down(m) ==
    /\ migrators[m].pc = "Down"
    /\ \/ /\ schema' = schema \ {migrators[m].lastRecord}
          /\ migrators' = [migrators EXCEPT ![m].pc = "Delete"]
       \/ /\ schema' = schema
          /\ Return(m, "error")
    /\ UNCHANGED <<server, migration_records, now, calls>>

\* m.db.Delete(&lastRecord): the record of that version is removed and
\* Rollback returns nil; on error Rollback returns it
Delete(m) ==
    /\ migrators[m].pc = "Delete"
    /\ \/ /\ migration_records' =
                [v \in DOMAIN migration_records \ {migrators[m].lastRecord} |->
                    migration_records[v]]
          /\ Return(m, "ok")
       \/ /\ migration_records' = migration_records
          /\ Return(m, "error")
    /\ UNCHANGED <<server, schema, now, calls>>

NextMigrate ==
    \/ Tick
    \/ \E m \in DOMAIN migrators : Run(m)
    \/ \E m \in DOMAIN migrators : AutoMigrate(m)
    \/ \E m \in DOMAIN migrators : getAppliedMigrations(m)
    \/ \E m \in DOMAIN migrators : Skip(m)
    \/ \E m \in DOMAIN migrators : Up(m)
    \/ \E m \in DOMAIN migrators : Create(m)
    \/ \E m \in DOMAIN migrators : RunReturn(m)
    \/ \E m \in DOMAIN migrators : Rollback(m)
    \/ \E m \in DOMAIN migrators : First(m)
    \/ \E m \in DOMAIN migrators : Down(m)
    \/ \E m \in DOMAIN migrators : Delete(m)

SpecMigrate == InitMigrate /\ [][NextMigrate]_vars



----------------------------------------------------------------------------
(* The operations of the engine, as the requests that ask for them *)

IsStart(req)    == req.method = "POST"   /\ Match(<<"instances">>, req.path)
IsUpdate(req)   == req.method = "PUT"    /\ Match(<<"instances", ":id">>, req.path)
IsCancel(req)   == req.method = "DELETE" /\ Match(<<"instances", ":id">>, req.path)
IsComplete(req) == req.method = "POST"   /\ Match(<<"tasks", ":id", "complete">>, req.path)
IsAssign(req)   == req.method = "POST"   /\ Match(<<"tasks", ":id", "assign">>, req.path)
IsClaim(req)    == req.method = "POST"   /\ Match(<<"tasks", ":id", "claim">>, req.path)

\* a call returns success, or fails with an error
Succeeded(resp) == resp.status \in 200..299
Failed(resp) == resp.status >= 400

\* request r is answered by this step
AnsweredNow(r) == r \in Pending /\ r \in DOMAIN responses'

\* The statuses of the engine's state machine among the values of the
\* Status column: Running is "active", Completed is "completed", Cancelled
\* and Failed are "terminated".
Terminal(status) == status \in {"completed", "terminated"}

\* the tasks of instance i
TasksOf(tasks, i) == {t \in DOMAIN tasks : tasks[t].ProcessInstanceID = i}

----------------------------------------------------------------------------
(* C1: of two claim calls by distinct users in flight together on a task  *)
(* in Created state, the one served first succeeds and leaves the task    *)
(* Assigned to its caller; a claim served when the task is assigned to    *)
(* another user fails and does not overwrite the assignee.                *)
C1_ConcurrentClaimOneWinner ==
    [][ /\ \A r1 \in Pending, r2 \in Pending :
             ( /\ r1 # r2
               /\ IsClaim(requests[r1]) /\ IsClaim(requests[r2])
               /\ Param(requests[r1]) = Param(requests[r2])
               /\ requests[r1].user # requests[r2].user
               /\ Param(requests[r1]) \in DOMAIN task_instances
               /\ task_instances[Param(requests[r1])].Status = "created"
               /\ process_instances[task_instances[Param(requests[r1])].ProcessInstanceID].Status
                     = "active"
               /\ AnsweredNow(r1) )
             => /\ Succeeded(responses'[r1])
                /\ task_instances'[Param(requests[r1])].Status = "assigned"
                /\ task_instances'[Param(requests[r1])].AssigneeID = requests[r1].user
        /\ \A r \in Pending :
             ( /\ IsClaim(requests[r])
               /\ Param(requests[r]) \in DOMAIN task_instances
               /\ task_instances[Param(requests[r])].Status = "assigned"
               /\ task_instances[Param(requests[r])].AssigneeID # requests[r].user
               /\ AnsweredNow(r) )
             => /\ Failed(responses'[r])
                /\ task_instances' = task_instances
      ]_vars

(* C3: with completeTask on an assigned task and cancel on its active     *)
(* instance in flight together, the one served first takes effect; a      *)
(* completeTask served after the cancel fails and changes nothing; no     *)
(* step completes a task of a cancelled instance or cancels a task while  *)
(* its instance stays uncancelled.                                        *)
C3_CompleteCancelRace ==
    [][ /\ \A c \in Pending, x \in Pending :
             ( /\ IsComplete(requests[c]) /\ IsCancel(requests[x])
               /\ Param(requests[c]) \in DOMAIN task_instances
               /\ task_instances[Param(requests[c])].Status = "assigned"
               /\ task_instances[Param(requests[c])].AssigneeID = requests[c].user
               /\ task_instances[Param(requests[c])].ProcessInstanceID = Param(requests[x])
               /\ Param(requests[x]) \in DOMAIN process_instances
               /\ process_instances[Param(requests[x])].Status = "active" )
             => /\ AnsweredNow(c) =>
                     /\ Succeeded(responses'[c])
                     /\ task_instances'[Param(requests[c])].Status = "completed"
                /\ AnsweredNow(x) =>
                     /\ Succeeded(responses'[x])
                     /\ process_instances'[Param(requests[x])].Status = "terminated"
                     /\ task_instances'[Param(requests[c])].Status = "cancelled"
        /\ \A c \in Pending :
             ( /\ IsComplete(requests[c])
               /\ Param(requests[c]) \in DOMAIN task_instances
               /\ task_instances[Param(requests[c])].Status = "cancelled"
               /\ \E x \in DOMAIN responses :
                      /\ IsCancel(requests[x])
                      /\ Param(requests[x]) = task_instances[Param(requests[c])].ProcessInstanceID
                      /\ Succeeded(responses[x])
               /\ AnsweredNow(c) )
             => Failed(responses'[c]) /\ db' = db
        /\ \A t \in DOMAIN task_instances :
             /\ t \in DOMAIN task_instances'
             /\ ( task_instances[t].Status # "completed" /\ task_instances'[t].Status = "completed" )
                  => process_instances'[task_instances[t].ProcessInstanceID].Status # "terminated"
             /\ ( task_instances[t].Status # "cancelled" /\ task_instances'[t].Status = "cancelled" )
                  => process_instances'[task_instances[t].ProcessInstanceID].Status = "terminated"
      ]_vars

(* C5: an instance whose status is Completed, Cancelled or Failed is not  *)
(* changed by any later step (status, current steps, variables), and an   *)
(* instance's status changes only when it is Running.                     *)
C5_TerminalInstanceFrozen ==
    [][ \A i \in DOMAIN process_instances :
          /\ i \in DOMAIN process_instances'
          /\ Terminal(process_instances[i].Status)
               => process_instances'[i] = process_instances[i]
          /\ process_instances'[i].Status # process_instances[i].Status
               => process_instances[i].Status = "active"
      ]_vars

\* a terminal instance on which both a cancel and a completeTask were served
C5_Witness ==
    \E x \in DOMAIN responses, c \in DOMAIN responses :
        /\ IsCancel(requests[x]) /\ IsComplete(requests[c])
        /\ Param(requests[x]) \in DOMAIN process_instances
        /\ Terminal(process_instances[Param(requests[x])].Status)
        /\ Param(requests[c]) \in TasksOf(task_instances, Param(requests[x]))

\* the transitions of the TaskInstance state machine
TaskEdges ==
    { <<"created", "assigned">>, <<"assigned", "completed">>,
      <<"created", "cancelled">>, <<"assigned", "cancelled">> }

(* C6: a task's status changes only along Created->Assigned,              *)
(* Assigned->Completed, Created->Cancelled and Assigned->Cancelled, so    *)
(* Completed and Cancelled are never left; and a task becomes Cancelled   *)
(* only in a step that serves a cancel of its instance.                   *)
C6_TaskStateMachine ==
    [][ \A t \in DOMAIN task_instances :
          /\ t \in DOMAIN task_instances'
          /\ task_instances'[t].Status # task_instances[t].Status
               => <<task_instances[t].Status, task_instances'[t].Status>> \in TaskEdges
          /\ ( task_instances'[t].Status = "cancelled" /\ task_instances[t].Status # "cancelled" )
               => \E x \in Pending :
                      /\ AnsweredNow(x)
                      /\ IsCancel(requests[x])
                      /\ Param(requests[x]) = task_instances[t].ProcessInstanceID
      ]_vars

\* a task in Created state on which a claim and a completeTask were served
C6_Witness ==
    \E a \in DOMAIN responses, c \in DOMAIN responses :
        /\ IsClaim(requests[a]) /\ IsComplete(requests[c])
        /\ Param(requests[a]) = Param(requests[c])
        /\ Param(requests[c]) \in DOMAIN task_instances
        /\ task_instances[Param(requests[c])].Status = "created"

(* C7: a complete call on an Assigned task completes it only when the     *)
(* caller is the assignee; a call by any other user fails and leaves the  *)
(* task and its instance unchanged.                                       *)
C7_CompleteOnlyByAssignee ==
    [][ \A r \in Pending :
          ( /\ IsComplete(requests[r])
            /\ Param(requests[r]) \in DOMAIN task_instances
            /\ task_instances[Param(requests[r])].Status = "assigned"
            /\ AnsweredNow(r) )
          => /\ task_instances'[Param(requests[r])].Status = "completed"
                  => task_instances[Param(requests[r])].AssigneeID = requests[r].user
             /\ task_instances[Param(requests[r])].AssigneeID # requests[r].user
                  => /\ Failed(responses'[r])
                     /\ task_instances' = task_instances
                     /\ process_instances' = process_instances
      ]_vars

(* C8: a cancel served on an instance that is Completed, Cancelled or     *)
(* Failed, or on which a cancel was served before, returns success and    *)
(* changes no row.                                                        *)
C8_CancelIdempotent ==
    [][ \A x \in Pending :
          ( /\ IsCancel(requests[x])
            /\ Param(requests[x]) \in DOMAIN process_instances
            /\ AnsweredNow(x)
            /\ \/ Terminal(process_instances[Param(requests[x])].Status)
               \/ \E y \in DOMAIN responses :
                      /\ IsCancel(requests[y])
                      /\ Param(requests[y]) = Param(requests[x])
                      /\ Succeeded(responses[y]) )
          => Succeeded(responses'[x]) /\ db' = db
      ]_vars

\* two cancels served on one terminal instance
C8_Witness ==
    \E x \in DOMAIN responses, y \in DOMAIN responses :
        /\ x # y
        /\ IsCancel(requests[x]) /\ IsCancel(requests[y])
        /\ Param(requests[x]) = Param(requests[y])
        /\ Param(requests[x]) \in DOMAIN process_instances
        /\ Terminal(process_instances[Param(requests[x])].Status)
        /\ Succeeded(responses[x]) /\ Succeeded(responses[y])

\* the rule evaluator on the rules of the definitions above
evaluate(rule) == rule = "true"

\* The target advance takes from a step with these outgoing transitions:
\* that of the first transition whose rule evaluates true, else that of the
\* else transition, else none.
FirstMatch(transitions) ==
    LET hits == {k \in 1..Len(transitions) : evaluate(transitions[k].rule)}
        dflt == {k \in 1..Len(transitions) : transitions[k].rule = "else"}
        min(S) == CHOOSE k \in S : \A j \in S : k <= j
    IN  IF hits # {} THEN transitions[min(hits)].target
        ELSE IF dflt # {} THEN transitions[min(dflt)].target
        ELSE NULL

(* C9: a start served for a definition whose start step is not a task     *)
(* step leaves a new instance that took the first outgoing transition     *)
(* whose rule is true (else the else transition), or that is Failed when  *)
(* there is none.                                                         *)
C9_AdvanceFirstMatch ==
    [][ \A r \in Pending :
          ( /\ IsStart(requests[r])
            /\ requests[r].body \in DOMAIN process_definitions
            /\ process_definitions[requests[r].body].BPMN.start
                  \notin process_definitions[requests[r].body].BPMN.tasks
            /\ AnsweredNow(r) )
          => \E i \in DOMAIN process_instances' \ DOMAIN process_instances :
               LET target == FirstMatch(process_definitions[requests[r].body].BPMN.transitions)
               IN  IF target = NULL
                   THEN /\ process_instances'[i].Status = "terminated"
                        /\ TasksOf(task_instances', i) = {}
                   ELSE /\ process_instances'[i].Status = "active"
                        /\ process_instances'[i].Context = {target}
                        /\ \E t \in TasksOf(task_instances', i) :
                               task_instances'[t].TaskDefinitionKey = target
      ]_vars

(* C10: a start served for a definition whose start step is a task step   *)
(* leaves a new instance with status Running and exactly one TaskInstance *)
(* of it, in Created state.                                               *)
C10_StartCreatesOneTask ==
    [][ \A r \in Pending :
          ( /\ IsStart(requests[r])
            /\ requests[r].body \in DOMAIN process_definitions
            /\ process_definitions[requests[r].body].BPMN.start
                  \in process_definitions[requests[r].body].BPMN.tasks
            /\ AnsweredNow(r) )
          => /\ Succeeded(responses'[r])
             /\ \E i \in DOMAIN process_instances' \ DOMAIN process_instances :
                  /\ process_instances'[i].Status = "active"
                  /\ Cardinality(TasksOf(task_instances', i)) = 1
                  /\ \A t \in TasksOf(task_instances', i) :
                         task_instances'[t].Status = "created"
      ]_vars

\* the variable context after the variables of a call are merged into it:
\* a key the call writes takes the call's value
Merge(old, new) == {p \in old : \A q \in new : q[1] # p[1]} \cup new

(* C11: in a linear process task->task->end, a complete served for the    *)
(* assignee of the current task completes that task and merges its        *)
(* variables into the instance's context, the later value winning; after  *)
(* the first task the instance is still Running, at the second task, and  *)
(* after the second task it is Completed with no current step.            *)
C11_LinearProcessCompletes ==
    [][ \A c \in Pending :
          ( /\ IsComplete(requests[c])
            /\ Param(requests[c]) \in DOMAIN task_instances
            /\ task_instances[Param(requests[c])].Status = "assigned"
            /\ task_instances[Param(requests[c])].AssigneeID = requests[c].user
            /\ process_instances[task_instances[Param(requests[c])].ProcessInstanceID]
                  .ProcessDefinitionID = "linear"
            /\ process_instances[task_instances[Param(requests[c])].ProcessInstanceID]
                  .Status = "active"
            /\ AnsweredNow(c) )
          => LET t == Param(requests[c])
                 i == task_instances[t].ProcessInstanceID
                 bpmn == process_definitions[process_instances[i].ProcessDefinitionID].BPMN
                 next == IF task_instances[t].TaskDefinitionKey = bpmn.start
                         THEN FirstMatch(bpmn.transitions) ELSE NULL
             IN  /\ Succeeded(responses'[c])
                 /\ task_instances'[t].Status = "completed"
                 /\ process_instances'[i].Variables
                       = Merge(process_instances[i].Variables, requests[c].variables)
                 /\ IF next # NULL
                    THEN /\ process_instances'[i].Status = "active"
                         /\ process_instances'[i].Context = {next}
                    ELSE /\ process_instances'[i].Status = "completed"
                         /\ process_instances'[i].Context = {}
      ]_vars

\* the branch of instance i that ends in step has arrived at the join: its
\* task is completed
Arrived(tasks, i, step) ==
    \E t \in TasksOf(tasks, i) :
        tasks[t].TaskDefinitionKey = step /\ tasks[t].Status = "completed"

(* C12: while a branch of a parallel section has not arrived at the       *)
(* AND-join, no step puts the join step into the instance's current steps *)
(* or creates its task, and a complete served for a task of one branch    *)
(* leaves the instance Running.                                           *)
C12_JoinWaitsForBothBranches ==
    [][ \A i \in DOMAIN process_instances :
          LET bpmn == process_definitions[process_instances[i].ProcessDefinitionID].BPMN
          IN  ( /\ process_instances[i].ProcessDefinitionID = "parallel"
                /\ \E b \in bpmn.branches : ~Arrived(task_instances', i, b) )
              => /\ bpmn.join \notin process_instances'[i].Context
                 /\ \A t \in TasksOf(task_instances', i) :
                        task_instances'[t].TaskDefinitionKey # bpmn.join
                 /\ \A c \in Pending :
                        ( /\ IsComplete(requests[c])
                          /\ Param(requests[c]) \in DOMAIN task_instances
                          /\ task_instances[Param(requests[c])].ProcessInstanceID = i
                          /\ process_instances[i].Status = "active"
                          /\ AnsweredNow(c) )
                        => process_instances'[i].Status = "active"
      ]_vars

\* a complete was served for the assignee of the task of one branch while
\* the task of the other branch is open
C12_Witness ==
    \E c \in DOMAIN responses :
        /\ IsComplete(requests[c])
        /\ Succeeded(responses[c])
        /\ Param(requests[c]) \in DOMAIN task_instances
        /\ task_instances[Param(requests[c])].AssigneeID = requests[c].user
        /\ LET i == task_instances[Param(requests[c])].ProcessInstanceID
           IN  /\ process_instances[i].ProcessDefinitionID = "parallel"
               /\ \E t \in TasksOf(task_instances, i) :
                      /\ t # Param(requests[c])
                      /\ task_instances[t].Status \in {"created", "assigned"}

\* publish is POST /api/v1/processes
IsPublish(req) == req.method = "POST" /\ req.path = <<"api", "v1", "processes">>

(* C16: a served publish leaves every stored definition in the table with *)
(* its key, version and content, and a definition it adds has a version   *)
(* above every stored version of its key.                                 *)
C16_PublishKeepsVersions ==
    [][ (\E r \in Pending : IsPublish(requests[r]) /\ AnsweredNow(r))
        => /\ \A k \in DOMAIN process_definitions :
                 /\ k \in DOMAIN process_definitions'
                 /\ process_definitions'[k] = process_definitions[k]
           /\ \A n \in DOMAIN process_definitions' \ DOMAIN process_definitions :
                 \A k \in DOMAIN process_definitions :
                     process_definitions[k].Key = process_definitions'[n].Key
                        => process_definitions'[n].Version > process_definitions[k].Version
      ]_vars

\* a publish of a new version of the stored key leave-approval was served
\* with success
C16_Witness ==
    \E r \in DOMAIN responses :
        /\ IsPublish(requests[r])
        /\ requests[r].body \in DOMAIN Submitted
        /\ Submitted[requests[r].body].Key \in DOMAIN process_definitions
        /\ Succeeded(responses[r])

\* the steps of graph g that a path from the steps S reaches
RECURSIVE Reach(_, _)
Reach(g, S) ==
    LET N == S \cup {e[2] : e \in {x \in g.edges : x[1] \in S}}
    IN  IF N = S THEN S ELSE Reach(g, N)

\* the graph invariants of a definition: exactly one start step, every
\* transition between existing steps, every step reachable from the start
ValidGraph(g) ==
    /\ Cardinality(g.start) = 1
    /\ g.start \subseteq g.steps
    /\ \A e \in g.edges : e[1] \in g.steps /\ e[2] \in g.steps
    /\ Reach(g, g.start) = g.steps

(* C17: a publish served for a definition whose graph has no start step,  *)
(* an unreachable step or a transition to a step that does not exist is   *)
(* answered with an error and leaves the stored definitions unchanged.    *)
C17_PublishRejectsInvalidGraph ==
    [][ \A r \in Pending :
          ( /\ IsPublish(requests[r])
            /\ requests[r].body \in DOMAIN Submitted
            /\ ~ValidGraph(Submitted[requests[r].body].BPMN)
            /\ AnsweredNow(r) )
          => /\ Failed(responses'[r])
             /\ process_definitions' = process_definitions
      ]_vars

(* C18: a request answered with an error status leaves every              *)
(* ProcessInstance row and every TaskInstance row as it was before the    *)
(* answer.                                                                *)
C18_ErrorsChangeNothing ==
    [][ (\E r \in Pending : AnsweredNow(r) /\ Failed(responses'[r]))
        => /\ process_instances' = process_instances
           /\ task_instances' = task_instances
      ]_vars

\* a claim of task t1 in Created state was answered with an error
C18_Witness ==
    \E r \in DOMAIN responses :
        /\ IsClaim(requests[r])
        /\ Failed(responses[r])
        /\ Param(requests[r]) \in DOMAIN task_instances
        /\ task_instances[Param(requests[r])].Status = "created"

\* the handlers setupRoutes registers under /api/v1 and /ws
ApiHandlers ==
    {rt.handler : rt \in {x \in Routes : x.pattern[1] \in {"api", "ws"}}}

(* C19: a request served by a handler registered under /api/v1 or /ws is  *)
(* answered 200 with the handler's fixed placeholder message, whoever     *)
(* sent it and whatever the database holds, and the step changes no       *)
(* stored definition, instance or task.                                   *)
C19_HandlersArePlaceholders ==
    [][ \A r \in Pending :
          (AnsweredNow(r) /\ Router(requests[r]) \in ApiHandlers)
          => /\ responses'[r] = [status |-> 200,
                                 message |-> Placeholders[Router(requests[r])]]
             /\ process_definitions' = process_definitions
             /\ process_instances' = process_instances
             /\ task_instances' = task_instances
      ]_vars

\* requests without credentials to delete a stored definition and to
\* delete a user were served
C19_Witness ==
    \E a \in DOMAIN responses, b \in DOMAIN responses :
        /\ Router(requests[a]) = "deleteProcess"
        /\ requests[a].path[4] \in DOMAIN process_definitions
        /\ Router(requests[b]) = "deleteUser"
        /\ requests[a].user = NULL /\ requests[b].user = NULL
        /\ responses[a].status = 200 /\ responses[b].status = 200

\* the declared migrations that S does not hold, in declaration order
RECURSIVE PendingFrom(_, _)
PendingFrom(k, S) ==
    IF k > Len(Migrations) THEN << >>
    ELSE IF Migrations[k] \in S THEN PendingFrom(k + 1, S)
    ELSE <<Migrations[k]>> \o PendingFrom(k + 1, S)

(* C20: when Run has returned success, every declared migration has a     *)
(* MigrationRecord, and the Ups executed during this Run are those of the *)
(* migrations that had no record when it started, once each, in           *)
(* declaration order; no Up of a migration recorded at the start ran.     *)
C20_RunAppliesPending ==
    \A m \in DOMAIN migrators :
        ( /\ migrators[m].op = "Run"
          /\ migrators[m].pc = "returned"
          /\ migrators[m].ret = "ok" )
        => /\ DOMAIN migration_records = Versions
           /\ migrators[m].executed = PendingFrom(1, migrators[m].started)

\* a Run that started with some migrations recorded and several not has
\* returned success
C20_Witness ==
    \E m \in DOMAIN migrators :
        /\ migrators[m].op = "Run"
        /\ migrators[m].pc = "returned"
        /\ migrators[m].ret = "ok"
        /\ migrators[m].started # {}
        /\ Len(migrators[m].executed) >= 2

\* the place of a version in the declared list
Index(v) == CHOOSE k \in DOMAIN Migrations : Migrations[k] = v

\* v is the record applied last: no other record has a later AppliedAt, and
\* none of the same second is declared after v (Run creates the records of
\* one second in declaration order)
AppliedLast(v, records) ==
    /\ v \in DOMAIN records
    /\ \A w \in DOMAIN records \ {v} :
          \/ records[w] < records[v]
          \/ records[w] = records[v] /\ Index(w) < Index(v)

(* C21: a Rollback that returns success has executed Down of the          *)
(* migration applied last and has deleted the record of that migration    *)
(* and of no other, also when several records carry the same AppliedAt.   *)
C21_RollbackUndoesLast ==
    [][ \A m \in DOMAIN migrators :
          ( /\ migrators[m].op = "Rollback"
            /\ migrators[m].pc = "Delete"
            /\ migrators'[m].pc = "returned"
            /\ migrators'[m].ret = "ok" )
          => /\ AppliedLast(migrators[m].lastRecord, migration_records)
             /\ migrators[m].lastRecord \notin schema'
             /\ DOMAIN migration_records'
                   = DOMAIN migration_records \ {migrators[m].lastRecord}
      ]_vars

----------------------------------------------------------------------------
(* Serving: the middleware chain of setupMiddleware, and main's shutdown *)

\* The middleware of the router in the order setupMiddleware registers it
\* (security.rate_limit.enabled is true by default).
setupMiddleware ==
    << "Recovery", "RequestLogger", "CORS", "RateLimit", "SecurityHeaders", "RequestID" >>

\* the empty string: c.GetString of a key that is not set, a header that is absent
Unset == <<"", 0>>

\* The requests clients send to the server: to a placeholder route, to the
\* health check, to a path without a route, and a CORS preflight; each with
\* or without an X-Request-ID header of its own.
HTTPRequests ==
    {[method |-> rq[1], path |-> rq[2], user |-> NULL, body |-> NULL, variables |-> {},
      request_id |-> id] :
        rq \in { <<"GET", <<"api", "v1", "tasks">> >>,
                 <<"GET", <<"health">> >>,
                 <<"GET", <<"nowhere">> >>,
                 <<"OPTIONS", <<"api", "v1", "tasks">> >> },
        id \in {Unset, <<"client", 1>>}}

\* the gin.Context of a request when the chain starts
NewContext(r) ==
    [r |-> r, request |-> requests[r], request_id |-> Unset, X_Request_ID |-> Unset, headers |-> {},
     status |-> 0, message |-> NULL, aborted |-> FALSE]

\* what the handler the router dispatches the request to writes
handler(w) ==
    LET h == Router(w.c.request)
    IN  IF h \in DOMAIN Placeholders
        THEN [w EXCEPT !.c.status = 200, !.c.message = Placeholders[h]]
        ELSE IF h = "healthCheck"
        THEN [w EXCEPT !.c.status = 200, !.c.message = "healthy"]
        ELSE IF h = "metricsHandler"
        THEN [w EXCEPT !.c.status = 200,
                       !.c.message = "Metrics endpoint - TODO: Implement Prometheus metrics"]
        ELSE [w EXCEPT !.c.status = 404, !.c.message = "404 page not found"]

\* c.Next(): the rest of the chain from its k-th member on, then the handler
RECURSIVE Next_(_, _)

\* gin.Recovery(): nothing panics, the chain goes on
Recovery(w, k) == Next_(w, k + 1)

\* RequestLogger: runs the rest of the chain, then logs the status and the
\* context key request_id
RequestLogger(w, k) ==
    LET after == Next_(w, k + 1)
    IN  [after EXCEPT !.logs = Append(@, [r |-> after.c.r,
                                          status |-> after.c.status,
                                          method |-> after.c.request.method,
                                          path |-> after.c.request.path,
                                          request_id |-> after.c.request_id])]

\* CORS: sets the CORS headers; a preflight request is aborted with 204
CORS(w, k) ==
    LET set == [w EXCEPT !.c.headers = @ \cup
                  {"Access-Control-Allow-Origin", "Access-Control-Allow-Methods",
                   "Access-Control-Allow-Headers", "Access-Control-Allow-Credentials",
                   "Access-Control-Max-Age"}]
    IN  IF w.c.request.method = "OPTIONS"
        THEN [set EXCEPT !.c.status = 204, !.c.aborted = TRUE]
        ELSE Next_(set, k + 1)

\* RateLimit: limiter.Allow() takes a token; without one the request is
\* answered 429 and aborted
RateLimit(w, k) ==
    IF w.limiter = 0
    THEN [w EXCEPT !.c.status = 429, !.c.message = "Rate limit exceeded",
                   !.c.aborted = TRUE]
    ELSE Next_([w EXCEPT !.limiter = @ - 1], k + 1)

SecurityHeaders(w, k) ==
    Next_([w EXCEPT !.c.headers = @ \cup
              {"X-Content-Type-Options", "X-Frame-Options", "X-XSS-Protection",
               "Strict-Transport-Security", "Referrer-Policy", "Content-Security-Policy"}],
          k + 1)

\* RequestID: the incoming X-Request-ID, or a new uuid when there is none,
\* is set as the context key request_id and as the response header
RequestID(w, k) ==
    LET sent == w.c.request.request_id
        requestID == IF sent = Unset THEN <<"uuid", w.uuids + 1>> ELSE sent
    IN  Next_([w EXCEPT !.c.request_id = requestID, !.c.X_Request_ID = requestID,
                        !.uuids = IF sent = Unset THEN @ + 1 ELSE @],
              k + 1)

Next_(w, k) ==
    IF k > Len(setupMiddleware) THEN handler(w)
    ELSE CASE setupMiddleware[k] = "Recovery"        -> Recovery(w, k)
           [] setupMiddleware[k] = "RequestLogger"   -> RequestLogger(w, k)
           [] setupMiddleware[k] = "CORS"            -> CORS(w, k)
           [] setupMiddleware[k] = "RateLimit"       -> RateLimit(w, k)
           [] setupMiddleware[k] = "SecurityHeaders" -> SecurityHeaders(w, k)
           [] setupMiddleware[k] = "RequestID"       -> RequestID(w, k)

\* The server listens with a full limiter; the tables are as in InitRoutes.
InitServe == InitRoutes

\* A client's request is accepted while the server listens.
Accept(req) ==
    /\ main = "serving"
    /\ Len(requests) < MaxRequests
    /\ requests' = Append(requests, req)
    /\ UNCHANGED <<migration, responses, db, http>>

\* The router serves an accepted request: the middleware chain, then the
\* handler, then the response is written.
ServeHTTP(r) ==
    /\ main \in {"serving", "shutdown"}
    /\ r \in Pending
    /\ LET w == Next_([c |-> NewContext(r), limiter |-> limiter, uuids |-> uuids,
                       logs |-> logs], 1)
       IN  /\ JSON(r, w.c.status, w.c.message)
           /\ contexts' = contexts @@ (r :> w.c)
           /\ logs' = w.logs
           /\ limiter' = w.limiter
           /\ uuids' = w.uuids
    /\ UNCHANGED <<migration, requests, db, main>>

\* rate.Limiter refills a token as time passes
Refill ==
    /\ main \in {"serving", "shutdown"}
    /\ limiter < Burst
    /\ limiter' = limiter + 1
    /\ UNCHANGED <<migration, requests, responses, db, contexts, logs, uuids, main>>

\* ListenAndServe returns an error other than ErrServerClosed: logrus.Fatalf
\* ends the process
ListenAndServe ==
    /\ main = "serving"
    /\ requests = << >>
    /\ main' = "fatal"
    /\ UNCHANGED <<migration, requests, responses, db, contexts, logs, limiter, uuids>>

\* SIGINT or SIGTERM arrives on quit: main goes on to srv.Shutdown(ctx)
Signal ==
    /\ main = "serving"
    /\ main' = "shutdown"
    /\ UNCHANGED <<migration, requests, responses, db, contexts, logs, limiter, uuids>>

\* A faulty variant of the deadline of Shutdown: the context has no timeout
WithTimeout_Background ==
    /\ main = "shutdown"
    /\ Pending # {}
    /\ UNCHANGED vars

\* context.WithTimeout(30 s) expires while requests are in flight: Shutdown
\* returns the context's error and logrus.Fatalf ends the process
WithTimeout ==
    /\ main = "shutdown"
    /\ Pending # {}
    /\ main' = "fatal"
    /\ UNCHANGED <<migration, requests, responses, db, contexts, logs, limiter, uuids>>

\* srv.Shutdown returns nil once no request is in flight: main logs
\* "Server exited" and returns
Shutdown ==
    /\ main = "shutdown"
    /\ Pending = {}
    /\ main' = "exited"
    /\ UNCHANGED <<migration, requests, responses, db, contexts, logs, limiter, uuids>>

NextServe ==
    \/ \E req \in HTTPRequests : Accept(req)
    \/ \E r \in 1..MaxRequests : ServeHTTP(r)
    \/ Refill
    \/ ListenAndServe
    \/ Signal
    \/ WithTimeout
    \/ Shutdown

SpecServe == InitServe /\ [][NextServe]_vars

\* The timer of the context and the polling loop of srv.Shutdown run
\* whatever the handlers do; a handler itself may never return.
SpecShutdown == SpecServe /\ WF_vars(WithTimeout \/ Shutdown)

\* the entries RequestLogger wrote for request r
EntriesOf(r) == {k \in DOMAIN logs : logs[k].r = r}

\* the id the claim gives request r: the incoming X-Request-ID when one was
\* sent, a generated one otherwise
CarriesID(r, id) ==
    /\ id # Unset
    /\ requests[r].request_id # Unset => id = requests[r].request_id
    /\ requests[r].request_id = Unset => id[1] = "uuid"

(* C22: every request the router has answered, whatever the status (429 of
   RateLimit and 204 of the CORS preflight included), has the context key
   request_id set, carries the same value in the response header
   X-Request-ID (the incoming header when one was sent, a generated id
   otherwise), and its RequestLogger entry carries that id. *)
C22_EveryRequestHasID ==
    \A r \in DOMAIN contexts :
        /\ CarriesID(r, contexts[r].request_id)
        /\ contexts[r].X_Request_ID = contexts[r].request_id
        /\ EntriesOf(r) # {}
        /\ \A k \in EntriesOf(r) : logs[k].request_id = contexts[r].request_id

(* C23: main returns only after a signal, and only from a Shutdown that
   found no request in flight, logging "Server exited"; a deadline that
   expires with requests in flight ends the process fatally; and once the
   signal has arrived the process always terminates, one way or the other. *)
C23_ShutdownTerminates ==
    /\ [][ /\ (main # "exited" /\ main' = "exited")
                 => (main = "shutdown" /\ Pending = {})
           /\ (main = "shutdown" /\ main' = "fatal") => Pending # {}
           /\ (main = "shutdown" /\ Pending # {} /\ main' # "shutdown")
                 => main' = "fatal"
           /\ main \in {"exited", "fatal"} => UNCHANGED vars ]_vars
    /\ (main = "shutdown") ~> (main \in {"exited", "fatal"})

\* the signal arrived with a request in flight, which was answered before
\* the deadline, and main has returned
C23_Witness ==
    /\ main = "exited"
    /\ DOMAIN responses # {}
    /\ DOMAIN responses = DOMAIN requests

\* S holds no version while an earlier-declared one is missing from it
IsPrefix(S) ==
    \A k \in DOMAIN Migrations :
        Migrations[k] \in S => \A j \in 1..k : Migrations[j] \in S

(* C24: no step of a Run or a Rollback, erroring ones included, takes the
   recorded versions from a prefix of the declared list 001..005 to a set
   that is not a prefix: no migration is recorded while an earlier-declared
   one is unrecorded. *)
C24_RecordedIsPrefix ==
    [][ IsPrefix(DOMAIN migration_records) => IsPrefix(DOMAIN migration_records') ]_vars

(* C25: whenever a Run or a Rollback has returned, with success or with an
   error, the versions that have a MigrationRecord are exactly the versions
   whose schema change is in effect. *)
C25_RecordsAgreeWithSchema ==
    \A m \in DOMAIN migrators :
        migrators[m].pc = "returned" => DOMAIN migration_records = schema

\* the versions of a sequence
Range(s) == {s[k] : k \in DOMAIN s}

(* C26: the step in which a migration's Up fails ends the Run with an error:
   that migration has no record afterwards, every record that existed
   before the step, of this Run or of earlier ones, is kept, and the Run
   executes nothing more: the failed Up stays the last one it executed
   until the process is started again. *)
C26_UpErrorStopsRun ==
    [][ \A m \in DOMAIN migrators :
          /\ ( /\ migrators[m].pc = "loop"
               /\ migrators'[m].pc = "returned"
               /\ migrators'[m].ret = "error" )
             => /\ migrators'[m].executed = Append(migrators[m].executed, Current(m))
                /\ Current(m) \notin DOMAIN migration_records'
                /\ migration_records' = migration_records
                /\ migrators[m].started \cup Range(migrators[m].executed)
                      \subseteq DOMAIN migration_records'
          /\ ( /\ migrators[m].pc = "returned"
               /\ migrators[m].op = "Run" )
             => \/ migrators'[m] = migrators[m]
                \/ migrators'[m].executed = << >>
      ]_vars

\* a Run applied 001, then the Up of 002 failed
C26_Witness ==
    \E m \in DOMAIN migrators :
        /\ migrators[m].op = "Run"
        /\ migrators[m].pc = "returned"
        /\ migrators[m].ret = "error"
        /\ Len(migrators[m].executed) = 2
        /\ migrators[m].executed[1] \in DOMAIN migration_records
        /\ migrators[m].executed[1] \notin migrators[m].started
        /\ migrators[m].executed[2] \notin schema
        /\ migrators[m].executed[2] \notin DOMAIN migration_records

(* C27: a Run started after a Run that returned success finds every version
   recorded; such a Run executes no Up, creates and deletes no
   MigrationRecord, and returns success once it has read the records. *)
C27_RunIsIdempotent ==
    [][ \A m \in DOMAIN migrators :
          /\ ( /\ migrators[m].op = "Run"
               /\ migrators[m].pc = "returned"
               /\ migrators[m].ret = "ok"
               /\ migrators'[m].op = "Run"
               /\ migrators'[m].pc = "AutoMigrate" )
             => migrators'[m].started = Versions
          /\ ( /\ migrators[m].op = "Run"
               /\ migrators[m].started = Versions
               /\ migrators[m].pc # "returned" )
             => /\ migrators'[m].executed = << >>
                /\ migrators'[m].pc # "Create"
                /\ migration_records' = migration_records
                /\ schema' = schema
                /\ ( /\ migrators[m].pc = "loop"
                     /\ migrators'[m].pc = "returned" ) => migrators'[m].ret = "ok"
      ]_vars

\* the first Run recorded a migration after second 0 and returned success;
\* the second Run started with every version recorded and has returned
C27_Witness ==
    \E m \in DOMAIN migrators :
        /\ calls = 2
        /\ migrators[m].op = "Run"
        /\ migrators[m].started = Versions
        /\ migrators[m].pc = "returned"
        /\ migrators[m].ret = "ok"
        /\ \E v \in Versions : migration_records[v] > 0

----------------------------------------------------------------------------
(* Two cmd/migrate processes against the same database *)

\* Two processes are started on a database that Run has filled up to some
\* migration: a prefix of the declared versions is recorded.
InitConcurrent ==
    /\ requests = << >>
    /\ responses = << >>
    /\ process_definitions = [k \in {} |-> k]
    /\ process_instances = [i \in {} |-> i]
    /\ task_instances = [t \in {} |-> t]
    /\ Listening
    /\ \E n \in 0..Len(Migrations) :
          /\ migration_records = [v \in {Migrations[k] : k \in 1..n} |-> 0]
          /\ schema = {Migrations[k] : k \in 1..n}
    /\ now = 0
    /\ calls = 0
    /\ migrators = [m \in {"m1", "m2"} |-> Idle]

SpecConcurrent == InitConcurrent /\ [][NextMigrate]_vars

\* process m is inside a call of Run
Running(m) ==
    /\ migrators[m].op = "Run"
    /\ migrators[m].pc \notin {"idle", "returned"}

(* C28: while a Run of one process is under way, no other process executes
   the Up of a migration whose Up that Run has executed: of two concurrent
   Runs at most one executes each pending Up. *)
C28_NoUpExecutedTwice ==
    [][ \A m, n \in DOMAIN migrators :
          ( /\ m # n
            /\ Running(m)
            /\ Running(n)
            /\ migrators'[n].executed # migrators[n].executed )
          => Migrations[migrators[n].idx] \notin Range(migrators[m].executed)
      ]_vars

====
